---- MODULE Spec2Model ----
(***************************************************************************)
(* Base-2 to 64 calculator (1~64進数電卓ver.1.0.0.py).                     *)
(*                                                                         *)
(* A text is a sequence of one-character strings.  The state is the        *)
(* widgets the handlers read and write: the radix spinner, the two         *)
(* BaseInput fields (filter radix and text), the result label and the      *)
(* most recently opened error popup.  `last` records which handler ran     *)
(* last, with the locals of its run (a, b, r, the exception raised).       *)
(* The fields' hint_text, which no handler reads, and the drawing code are *)
(* left out.  The spinner holds its text; int() and str() convert it.      *)
(***************************************************************************)
EXTENDS Integers, Sequences, FiniteSets, TLC

VARIABLES spinner, entry1, entry2, result_label, popup, last

vars == <<spinner, entry1, entry2, result_label, popup, last>>

(***************************************************************************)
(* Bounds of the model.                                                    *)
(***************************************************************************)
\* most characters the two operand fields hold together when typed
MaxTyped == 2
\* longest substring pasted into a field in one insert_text call
MaxSub == 2
\* most characters the two operand strings hold together when assigned
MaxChars == 3

(***************************************************************************)
(* Characters.                                                             *)
(***************************************************************************)
\* DIGIT_MAP, 1-indexed here: DIGIT_MAP[i + 1] is Python's DIGIT_MAP[i]
DIGIT_MAP ==
  << "0","1","2","3","4","5","6","7","8","9",
     "A","B","C","D","E","F","G","H","I","J","K","L","M",
     "N","O","P","Q","R","S","T","U","V","W","X","Y","Z",
     "a","b","c","d","e","f","g","h","i","j","k","l","m",
     "n","o","p","q","r","s","t","u","v","w","x","y","z",
     "+","/" >>

\* the ASCII blocks the handlers compare against, in code point order
AsciiDigits == << "0","1","2","3","4","5","6","7","8","9" >>
AsciiUpper ==
  << "A","B","C","D","E","F","G","H","I","J","K","L","M",
     "N","O","P","Q","R","S","T","U","V","W","X","Y","Z" >>
AsciiLower ==
  << "a","b","c","d","e","f","g","h","i","j","k","l","m",
     "n","o","p","q","r","s","t","u","v","w","x","y","z" >>

IndexIn(seq, c) == CHOOSE i \in 1..Len(seq) : seq[i] = c
Occurs(seq, c) == \E i \in 1..Len(seq) : seq[i] = c
Range(seq) == { seq[i] : i \in 1..Len(seq) }

\* the ASCII characters the model's inputs hold
Ascii == Range(AsciiDigits) \cup Range(AsciiUpper) \cup Range(AsciiLower)
           \cup {" ", "!", "+", "-", "/"}

\* code points
CodePoint ==
  [c \in Ascii |->
     CASE Occurs(AsciiDigits, c) -> 47 + IndexIn(AsciiDigits, c)
       [] Occurs(AsciiUpper, c) -> 64 + IndexIn(AsciiUpper, c)
       [] Occurs(AsciiLower, c) -> 96 + IndexIn(AsciiLower, c)
       [] c = " " -> 32
       [] c = "!" -> 33
       [] c = "+" -> 43
       [] c = "-" -> 45
       [] c = "/" -> 47]

\* Python's ord(c)
ord(c) == CodePoint[c]

\* the characters str.strip() removes that the model's inputs can hold
Whitespace == {" ", "\t", "\n"}

\* DIGIT_MAP.find(c): the 0-based index of c, or -1
Found ==
  [c \in Ascii |-> IF Occurs(DIGIT_MAP, c) THEN IndexIn(DIGIT_MAP, c) - 1 ELSE -1]

find(c) == Found[c]

(***************************************************************************)
(* Exceptions and results.  An exception is its class and its message; the *)
(* character and radix a message was formatted from are kept beside it.    *)
(***************************************************************************)
NoMsg == [exc |-> "", text |-> "", c |-> "", base |-> 0]
EmptyMsg == [exc |-> "ValueError", text |-> "Input is empty.", c |-> "", base |-> 0]
InvalidMsg(c, base) ==
  [exc |-> "ValueError", text |-> "'{c}' is invalid for base {base}.",
   c |-> c, base |-> base]
ZeroDivMsg ==
  [exc |-> "ZeroDivisionError", text |-> "Cannot divide by zero.", c |-> "", base |-> 0]
UnknownMsg == [exc |-> "ValueError", text |-> "Unknown operation.", c |-> "", base |-> 0]

\* a call that returned n, a call that raised m, a call that was never made
Return(n) == [ok |-> TRUE, n |-> n, err |-> NoMsg]
Raise(m) == [ok |-> FALSE, n |-> 0, err |-> m]
NotRun == [ok |-> FALSE, n |-> 0, err |-> NoMsg]

(***************************************************************************)
(* BaseInput.insert_text: the characters handed on to TextInput.           *)
(***************************************************************************)
\* insert_text with the lower-case branch using the upper-case offset
insert_idx_folding(c, base) ==
  IF ord("0") <= ord(c) /\ ord(c) <= ord("9") THEN ord(c) - ord("0")
  ELSE IF ord("A") <= ord(c) /\ ord(c) <= ord("Z") THEN ord(c) - ord("A") + 10
  ELSE IF ord("a") <= ord(c) /\ ord(c) <= ord("z") THEN ord(c) - ord("a") + 10
  ELSE IF c = "+" /\ base > 62 THEN 62
  ELSE IF c = "/" /\ base > 63 THEN 63
  ELSE -1

\* the first branch of the if/elif chain that takes c: its idx, or -1 for
\* the final else (continue)
insert_idx(c, base) ==
  IF ord("0") <= ord(c) /\ ord(c) <= ord("9") THEN ord(c) - ord("0")
  ELSE IF ord("A") <= ord(c) /\ ord(c) <= ord("Z") THEN ord(c) - ord("A") + 10
  ELSE IF ord("a") <= ord(c) /\ ord(c) <= ord("z") THEN ord(c) - ord("a") + 36
  ELSE IF c = "+" /\ base > 62 THEN 62
  ELSE IF c = "/" /\ base > 63 THEN 63
  ELSE -1

RECURSIVE filtered(_, _)
filtered(substring, base) ==
  IF substring = << >> THEN << >>
  ELSE LET c == Head(substring)
           idx == insert_idx(c, base)
       IN  (IF idx >= 0 /\ idx < base THEN << DIGIT_MAP[idx + 1] >> ELSE << >>)
             \o filtered(Tail(substring), base)

(***************************************************************************)
(* convert_to_decimal and convert_from_decimal.                            *)
(***************************************************************************)
RECURSIVE lstrip(_)
lstrip(s) == IF s # << >> /\ Head(s) \in Whitespace THEN lstrip(Tail(s)) ELSE s

RECURSIVE rstrip(_)
rstrip(s) ==
  IF s # << >> /\ s[Len(s)] \in Whitespace
  THEN rstrip(SubSeq(s, 1, Len(s) - 1)) ELSE s

\* str.strip()
strip(s) == rstrip(lstrip(s))

\* the loop with `idx > base` for `idx >= base`
RECURSIVE scan_off_by_one(_, _, _, _)
scan_off_by_one(s, i, n, base) ==
  IF i > Len(s) THEN Return(n)
  ELSE LET c == s[i]
           idx == find(c)
       IN  IF idx < 0 \/ idx > base THEN Raise(InvalidMsg(c, base))
           ELSE scan_off_by_one(s, i + 1, n * base + idx, base)

\* the for loop of convert_to_decimal from position i with accumulator n
RECURSIVE scan(_, _, _, _)
scan(s, i, n, base) ==
  IF i > Len(s) THEN Return(n)
  ELSE LET c == s[i]
           idx == find(c)
       IN  IF idx < 0 \/ idx >= base THEN Raise(InvalidMsg(c, base))
           ELSE scan(s, i + 1, n * base + idx, base)

convert_to_decimal(s, base) ==
  LET t == strip(s)
  IN  IF t = << >> THEN Raise(EmptyMsg) ELSE scan(t, 1, 0, base)

\* the while loop of convert_from_decimal: digits, least significant first
RECURSIVE digits_of(_, _)
digits_of(n, base) ==
  IF n > 0 THEN << DIGIT_MAP[(n % base) + 1] >> \o digits_of(n \div base, base)
  ELSE << >>

RECURSIVE reversed(_)
reversed(s) == IF s = << >> THEN << >> ELSE reversed(Tail(s)) \o << Head(s) >>

abs(n) == IF n < 0 THEN -n ELSE n

convert_from_decimal(n, base) ==
  LET sign == IF n < 0 THEN << "-" >> ELSE << >>
      m == abs(n)
  IN  IF m = 0 THEN << "0" >> ELSE sign \o reversed(digits_of(m, base))

\* Python's str(n) on an int
str(n) ==
  IF n = 0 THEN << "0" >>
  ELSE (IF n < 0 THEN << "-" >> ELSE << >>) \o reversed(digits_of(abs(n), 10))

\* Python's int(s) on a string of decimal digits
RECURSIVE int_from(_, _)
int_from(s, n) ==
  IF s = << >> THEN n
  ELSE int_from(Tail(s), n * 10 + (IndexIn(AsciiDigits, Head(s)) - 1))

int(s) == int_from(s, 0)

(***************************************************************************)
(* The operators of on_button.  Python's // is floor division and % takes  *)
(* the sign of the divisor, as \div and % do here; &, | and ^ work on the  *)
(* two's complement form of unbounded integers.                            *)
(***************************************************************************)
RECURSIVE bit_and(_, _)
bit_and(a, b) ==
  IF a = 0 \/ b = 0 THEN 0
  ELSE IF a = -1 THEN b
  ELSE IF b = -1 THEN a
  ELSE (a % 2) * (b % 2) + 2 * bit_and(a \div 2, b \div 2)

RECURSIVE bit_or(_, _)
bit_or(a, b) ==
  IF a = 0 THEN b
  ELSE IF b = 0 THEN a
  ELSE IF a = -1 \/ b = -1 THEN -1
  ELSE (IF a % 2 = 1 \/ b % 2 = 1 THEN 1 ELSE 0) + 2 * bit_or(a \div 2, b \div 2)

RECURSIVE bit_xor(_, _)
bit_xor(a, b) ==
  IF a = 0 THEN b
  ELSE IF b = 0 THEN a
  ELSE IF a = -1 /\ b = -1 THEN 0
  ELSE (IF a % 2 # b % 2 THEN 1 ELSE 0) + 2 * bit_xor(a \div 2, b \div 2)

\* the divide branch answering 0 for a zero divisor
divide_unchecked(a, b) == IF b = 0 THEN Return(0) ELSE Return(a \div b)

\* the divide branch
divide(a, b) == IF b = 0 THEN Raise(ZeroDivMsg) ELSE Return(a \div b)

\* the if/elif chain on operation
dispatch(operation, a, b) ==
  CASE operation = "add" -> Return(a + b)
    [] operation = "subtract" -> Return(a - b)
    [] operation = "multiply" -> Return(a * b)
    [] operation = "divide" -> divide(a, b)
    [] operation = "and" -> Return(bit_and(a, b))
    [] operation = "or" -> Return(bit_or(a, b))
    [] operation = "xor" -> Return(bit_xor(a, b))
    [] OTHER -> Raise(UnknownMsg)

\* the try block decoding the second operand first
try_block_b_first(operation, text1, text2, base) ==
  LET b == convert_to_decimal(text2, base)
  IN  IF ~b.ok THEN [a |-> NotRun, b |-> b, r |-> NotRun, raised |-> b.err]
      ELSE LET a == convert_to_decimal(text1, base)
           IN  IF ~a.ok THEN [a |-> a, b |-> b, r |-> NotRun, raised |-> a.err]
               ELSE LET r == dispatch(operation, a.n, b.n)
                    IN  [a |-> a, b |-> b, r |-> r, raised |-> r.err]

\* the try block up to r: the locals a, b and r, and the exception raised
try_block(operation, text1, text2, base) ==
  LET a == convert_to_decimal(text1, base)
  IN  IF ~a.ok THEN [a |-> a, b |-> NotRun, r |-> NotRun, raised |-> a.err]
      ELSE LET b == convert_to_decimal(text2, base)
           IN  IF ~b.ok THEN [a |-> a, b |-> b, r |-> NotRun, raised |-> b.err]
               ELSE LET r == dispatch(operation, a.n, b.n)
                    IN  [a |-> a, b |-> b, r |-> r, raised |-> r.err]

(***************************************************************************)
(* The widgets.                                                            *)
(***************************************************************************)
\* the spinner's values, range(2, 65)
SpinnerValues == 2..64


\* Spinner(text='10', values=[str(i) for i in range(2, 65)])
SpinnerTexts == { str(i) : i \in SpinnerValues }

\* Label(text='Result:')
ResultInitial ==
  [text |-> "Result:", base |-> << >>, out_base |-> << >>, out_decimal |-> << >>]

\* the f-string on_button writes to the result label
ResultText(base, out_base, out_decimal) ==
  [text |-> "Result (base {base}): {out_base}\nResult (decimal): {out_decimal}",
   base |-> base, out_base |-> out_base, out_decimal |-> out_decimal]

\* BaseInput(base=...), with the text of a new TextInput
BaseInput(base) == [base |-> base, text |-> << >>]

\* what `last` holds when no handler has run
Built ==
  [handler |-> "build", operation |-> "", entry |-> 0, substring |-> << >>,
   inserted |-> << >>, a |-> NotRun, b |-> NotRun, r |-> NotRun, raised |-> NoMsg]

Operations == {"add", "subtract", "multiply", "divide", "and", "or", "xor", "clear"}

(***************************************************************************)
(* Inputs of the model.                                                    *)
(***************************************************************************)
RECURSIVE Strings(_, _)
\* the sequences over chars of length at most n
Strings(chars, n) ==
  IF n = 0 THEN { << >> }
  ELSE LET shorter == Strings(chars, n - 1)
       IN  shorter \cup { << c >> \o t : c \in chars, t \in { u \in shorter : Len(u) = n - 1 } }

\* the two-part splits of a total of at most n characters over chars
Pairs(chars, n) ==
  { p \in Strings(chars, n) \X Strings(chars, n) : Len(p[1]) + Len(p[2]) <= n }

(***************************************************************************)
(* The state after build().                                                *)
(***************************************************************************)
Init ==
  /\ spinner = str(10)
  /\ entry1 = BaseInput(10)
  /\ entry2 = BaseInput(10)
  /\ result_label = ResultInitial
  /\ popup = NoMsg
  /\ last = Built

(***************************************************************************)
(* The handlers.                                                           *)
(***************************************************************************)
\* TextInput.insert_text: the text with `inserted` put at the cursor
text_inserted(text, inserted, cursor) ==
  SubSeq(text, 1, cursor) \o inserted \o SubSeq(text, cursor + 1, Len(text))

\* BaseInput.insert_text on entry n (1 or 2) with the cursor after `cursor`
\* characters
insert_text(n, substring, cursor) ==
  LET entry == IF n = 1 THEN entry1 ELSE entry2
      inserted == filtered(substring, entry.base)
      after == [entry EXCEPT !.text = text_inserted(entry.text, inserted, cursor)]
  IN  /\ cursor \in 0..Len(entry.text)
      /\ entry1' = IF n = 1 THEN after ELSE entry1
      /\ entry2' = IF n = 2 THEN after ELSE entry2
      /\ last' = [Built EXCEPT !.handler = "insert_text", !.entry = n,
                               !.substring = substring, !.inserted = inserted]
      /\ UNCHANGED <<spinner, result_label, popup>>

\* the loop body without `entry.text = ''`
entry_rebased_keeping_text(entry, base) == [entry EXCEPT !.base = base]

\* the loop body of on_base_change on one entry
entry_rebased(entry, base) == [entry EXCEPT !.base = base, !.text = << >>]

\* the spinner's text changes to value, and its binding calls on_base_change
on_base_change(value) ==
  LET base == int(value)
  IN  /\ value # spinner
      /\ spinner' = value
      /\ entry1' = entry_rebased(entry1, base)
      /\ entry2' = entry_rebased(entry2, base)
      /\ result_label' = ResultInitial
      /\ last' = [Built EXCEPT !.handler = "on_base_change"]
      /\ UNCHANGED popup

\* clear that empties the first field only
on_clear_first_only ==
  /\ entry1' = [entry1 EXCEPT !.text = << >>]
  /\ result_label' = ResultInitial
  /\ last' = [Built EXCEPT !.handler = "on_button", !.operation = "clear"]
  /\ UNCHANGED <<spinner, entry2, popup>>

\* on_button('clear')
on_clear ==
  /\ entry1' = [entry1 EXCEPT !.text = << >>]
  /\ entry2' = [entry2 EXCEPT !.text = << >>]
  /\ result_label' = ResultInitial
  /\ last' = [Built EXCEPT !.handler = "on_button", !.operation = "clear"]
  /\ UNCHANGED <<spinner, popup>>

\* the end of the try block, once r is computed
on_result(r) ==
  /\ result_label' = ResultText(spinner, convert_from_decimal(r, int(spinner)), str(r))
  /\ UNCHANGED <<spinner, entry1, entry2, popup>>

\* an error path that also resets the result label
show_error_resetting(msg) ==
  /\ popup' = msg
  /\ result_label' = ResultInitial
  /\ UNCHANGED <<spinner, entry1, entry2>>

\* the except clauses: show_error(str(exception))
show_error(msg) ==
  /\ popup' = msg
  /\ UNCHANGED <<spinner, entry1, entry2, result_label>>

\* on_button(operation) for an operation other than 'clear'
on_evaluate(operation) ==
  LET t == try_block(operation, entry1.text, entry2.text, int(spinner))
  IN  /\ last' = [Built EXCEPT !.handler = "on_button", !.operation = operation,
                               !.a = t.a, !.b = t.b, !.r = t.r, !.raised = t.raised]
      /\ IF t.r.ok THEN on_result(t.r.n) ELSE show_error(t.raised)

on_button(operation) ==
  IF operation = "clear" THEN on_clear ELSE on_evaluate(operation)

(***************************************************************************)
(* The calculator as the user drives it: a key typed into one of the two   *)
(* fields, a radix selected, one of the eight buttons pressed.             *)
(***************************************************************************)
\* radixes the user selects
Radixes == { str(i) : i \in {2, 10, 16, 64} }
\* keys the user types
Keys == {"0", "1", "A", "+", "-"}

Typed(n, c, cursor) ==
  /\ Len(entry1.text) + Len(entry2.text) < MaxTyped
  /\ insert_text(n, << c >>, cursor)

Type == \E n \in {1, 2}, c \in Keys, cursor \in 0..MaxTyped : Typed(n, c, cursor)
SelectBase == \E value \in Radixes : on_base_change(value)
Press == \E operation \in Operations : on_button(operation)

Next == Type \/ SelectBase \/ Press

Spec == Init /\ [][Next]_vars

(***************************************************************************)
(* The input filter on pasted text: a substring pasted into a field that   *)
(* a radix change or clear has just emptied, at each radix where a branch  *)
(* of insert_text changes its answer.                                      *)
(***************************************************************************)
PasteRadixes == { str(i) : i \in {2, 10, 11, 36, 37, 62, 63, 64} }
PasteKeys == {"1", "9", "A", "Z", "a", "z", "+", "/", "-", " "}
Substrings == Strings(PasteKeys, MaxSub) \ { << >> }

Pasted(n, substring) ==
  /\ last.handler # "insert_text"
  /\ entry1.text = << >>
  /\ entry2.text = << >>
  /\ insert_text(n, substring, 0)

Paste == \E n \in {1, 2}, substring \in Substrings : Pasted(n, substring)
SelectPasteBase == \E value \in PasteRadixes : on_base_change(value)
PressClear == on_button("clear")

NextFilter == Paste \/ SelectPasteBase \/ PressClear

SpecFilter == Init /\ [][NextFilter]_vars

(***************************************************************************)
(* on_button on operand texts as assigned to the fields' text property     *)
(* (not typed through insert_text): signs, blanks and symbols outside the  *)
(* radix included, and the operand pairs of the specification's examples.  *)
(***************************************************************************)
RawRadixes == { str(i) : i \in {10, 16} }
RawChars == {"0", "1", "A", "-", " "}
Examples == { << <<"-", "1", "0">>, <<"3">> >>, << <<"5">>, <<"0">> >> }
RawPairs == Pairs(RawChars, MaxChars) \cup Examples
\* the tags on_button is called with: the eight buttons' and one that no
\* button has
RawOperations == Operations \cup {"modulo"}

InitRaw ==
  /\ spinner \in RawRadixes
  /\ \E p \in RawPairs :
       /\ entry1 = [base |-> int(spinner), text |-> p[1]]
       /\ entry2 = [base |-> int(spinner), text |-> p[2]]
  /\ result_label = ResultInitial
  /\ popup = NoMsg
  /\ last = Built

PressRaw == \E operation \in RawOperations : on_button(operation)
SelectRawBase == \E value \in RawRadixes : on_base_change(value)

NextRaw == PressRaw \/ SelectRawBase

SpecRaw == InitRaw /\ [][NextRaw]_vars

(***************************************************************************)
(* Vocabulary of the properties (section 4.1 and 4.2 of the specification).*)
(***************************************************************************)
\* valueFor(symbol) exists and is below radix
ValidDigit(c, radix) ==
  \E i \in 1..64 : DIGIT_MAP[i] = c /\ i - 1 < radix

\* the text without its leading and trailing whitespace
Trimmed(s) ==
  LET solid == { i \in 1..Len(s) : s[i] \notin Whitespace }
  IN  IF solid = {} THEN << >>
      ELSE SubSeq(s, CHOOSE i \in solid : \A j \in solid : i <= j,
                     CHOOSE i \in solid : \A j \in solid : j <= i)

\* positions of the characters that are no digit of the radix
BadAt(s, radix) == { i \in 1..Len(s) : ~ValidDigit(s[i], radix) }

\* the digit string s is all zeros
AllZero(s) == \A i \in 1..Len(s) : s[i] = "0"

\* the last handler was on_button with an operation other than clear
Evaluated == last.handler = "on_button" /\ last.operation # "clear"

IsInvalidDigit(outcome) ==
  ~outcome.ok /\ outcome.err.text = "'{c}' is invalid for base {base}."

\* quotient rounded toward negative infinity
FloorDiv(a, b) == IF b > 0 THEN a \div b ELSE (0 - a) \div (0 - b)

\* section 4.2's parse on a sign marker followed by digits of the radix
SignedOperand(s, radix) ==
  /\ s # << >>
  /\ LET d == IF Head(s) = "-" THEN Tail(s) ELSE s
     IN  d # << >> /\ BadAt(d, radix) = {}

RECURSIVE Magnitude(_, _)
Magnitude(d, radix) ==
  IF d = << >> THEN 0
  ELSE Magnitude(SubSeq(d, 1, Len(d) - 1), radix) * radix
         + ((CHOOSE i \in 1..64 : DIGIT_MAP[i] = d[Len(d)]) - 1)

SignedValue(s, radix) ==
  IF Head(s) = "-" THEN 0 - Magnitude(Tail(s), radix) ELSE Magnitude(s, radix)

(***************************************************************************)
(* C1                                                                      *)
(***************************************************************************)
\* C1: round trip.  Whenever on_button has computed a value r (negative,
\* zero or positive) and written convert_from_decimal(r) to the result
\* label, convert_to_decimal of that string at the same radix returns r.
C1_RoundTrip ==
  (Evaluated /\ last.r.ok) =>
    convert_to_decimal(result_label.out_base, int(spinner)) = Return(last.r.n)

(***************************************************************************)
(* C2                                                                      *)
(***************************************************************************)
\* C2: decode accepts a leading '-'.  When the first operand is "-"
\* followed by a non-empty string d of digits valid for the radix, its
\* decode succeeds and returns the negation of the value of d.
C2_SignAccepted ==
  LET radix == int(spinner)
      s == entry1.text
  IN  (Evaluated /\ Len(s) >= 2 /\ Head(s) = "-" /\ BadAt(Tail(s), radix) = {}) =>
        last.a = Return(0 - Magnitude(Tail(s), radix))

(***************************************************************************)
(* C5                                                                      *)
(***************************************************************************)
\* C5: divide follows floor division on operands of any sign.  When both
\* operands are a sign marker and digits, and the divisor is not zero,
\* divide succeeds with the quotient rounded toward negative infinity; on
\* "-10" and "3" at radix 10 the result is -4.
C5_FloorDivide ==
  LET radix == int(spinner)
  IN  (/\ Evaluated
       /\ last.operation = "divide"
       /\ SignedOperand(entry1.text, radix)
       /\ SignedOperand(entry2.text, radix)
       /\ SignedValue(entry2.text, radix) # 0) =>
        /\ last.r = Return(FloorDiv(SignedValue(entry1.text, radix),
                                    SignedValue(entry2.text, radix)))
        /\ (entry1.text = <<"-", "1", "0">> /\ entry2.text = <<"3">> /\ radix = 10
              => result_label.out_decimal = <<"-", "4">>)

(***************************************************************************)
(* C3                                                                      *)
(***************************************************************************)
\* what C3 says of one convert_to_decimal call on text s at the radix
DecodeFailsAsSpecified(s, radix, outcome) ==
  LET t == Trimmed(s)
      bad == BadAt(t, radix)
  IN  IF t = << >> THEN outcome = Raise(EmptyMsg)
      ELSE /\ IsInvalidDigit(outcome) <=> bad # {}
           /\ outcome # Raise(EmptyMsg)
           /\ bad # {} =>
                outcome.err = InvalidMsg(t[CHOOSE i \in bad : \A j \in bad : i <= j], radix)

\* C3: for every radix and every operand that is non-empty after trimming,
\* decode fails with the invalid-digit error if and only if some character
\* of the trimmed operand is absent from the alphabet or has a digit value
\* >= the radix, and the error names the leftmost such character and the
\* radix; an empty or whitespace-only operand fails with the empty-input
\* error instead.  Stated of each convert_to_decimal call the last
\* on_button made.
C3_InvalidDigit ==
  Evaluated =>
    /\ DecodeFailsAsSpecified(entry1.text, int(spinner), last.a)
    /\ last.a.ok => DecodeFailsAsSpecified(entry2.text, int(spinner), last.b)

\* C3's case: an operand padded with a blank whose two other characters are
\* both invalid and differ; the error names the left one
C3_Witness ==
  /\ Evaluated
  /\ entry1.text # Trimmed(entry1.text)
  /\ \E i, j \in BadAt(Trimmed(entry1.text), int(spinner)) :
       /\ i < j
       /\ Trimmed(entry1.text)[i] # Trimmed(entry1.text)[j]
       /\ last.a.err = InvalidMsg(Trimmed(entry1.text)[i], int(spinner))

(***************************************************************************)
(* C4                                                                      *)
(***************************************************************************)
\* C4: when both operands decode, divide fails with the division-by-zero
\* error exactly when the second operand is zero (all its digits are "0",
\* one digit or several), whatever the first operand is, and then the
\* result label is left as it was; otherwise divide raises nothing.
C4_DivisionByZero ==
  [][(/\ last'.handler = "on_button"
      /\ last'.operation = "divide"
      /\ last'.a.ok
      /\ last'.b.ok) =>
       IF AllZero(Trimmed(entry2.text))
       THEN /\ last'.raised = ZeroDivMsg
            /\ popup' = ZeroDivMsg
            /\ ~last'.r.ok
            /\ result_label' = result_label
       ELSE /\ last'.raised = NoMsg
            /\ last'.r.ok]_vars

\* C4's case: divide by the two-digit zero "00" has failed
C4_Witness ==
  /\ Evaluated
  /\ last.operation = "divide"
  /\ last.a.ok
  /\ Trimmed(entry2.text) = <<"0", "0">>
  /\ popup = ZeroDivMsg

(***************************************************************************)
(* C6                                                                      *)
(***************************************************************************)
\* C6: for every operation other than clear the first operand is decoded
\* before the second and the first failure ends the evaluation: when the
\* first operand does not decode, its error is the one reported and the
\* second is never decoded; when only the second does not decode, its
\* error is reported; either is reported whatever the operation is, divide
\* by zero and an unknown operation included.
C6_FirstFailure ==
  LET radix == int(spinner)
      bad1 == Trimmed(entry1.text) = << >> \/ BadAt(Trimmed(entry1.text), radix) # {}
      bad2 == Trimmed(entry2.text) = << >> \/ BadAt(Trimmed(entry2.text), radix) # {}
  IN  Evaluated =>
        /\ bad1 => /\ ~last.a.ok
                   /\ last.raised = last.a.err
                   /\ popup = last.a.err
                   /\ last.b = NotRun
        /\ (~bad1 /\ bad2) => /\ last.a.ok
                              /\ ~last.b.ok
                              /\ last.raised = last.b.err
                              /\ popup = last.b.err
        /\ (bad1 \/ bad2) => last.raised \notin {ZeroDivMsg, UnknownMsg, NoMsg}

\* C6's case: both operands invalid, with different errors, under an
\* operation no button has
C6_Witness ==
  /\ Evaluated
  /\ last.operation = "modulo"
  /\ ~last.a.ok
  /\ ~convert_to_decimal(entry2.text, int(spinner)).ok
  /\ convert_to_decimal(entry2.text, int(spinner)).err # last.a.err
  /\ popup = last.a.err

(***************************************************************************)
(* C7                                                                      *)
(***************************************************************************)
\* C7: a failing evaluation changes no calculator state: when on_button
\* ends in an empty-input, invalid-digit, division-by-zero or
\* unknown-operation error, the selected radix, both operand fields and the
\* result label are after the step what they were before it.
C7_FailureFrame ==
  [][(last'.handler = "on_button" /\ last'.raised # NoMsg) =>
       /\ last'.raised \in {EmptyMsg, ZeroDivMsg, UnknownMsg}
            \/ IsInvalidDigit(Raise(last'.raised))
       /\ spinner' = spinner
       /\ entry1' = entry1
       /\ entry2' = entry2
       /\ result_label' = result_label]_vars

\* C7's case: a division by zero has failed while the label shows the result
\* of an earlier calculation
C7_Witness ==
  /\ Evaluated
  /\ last.raised = ZeroDivMsg
  /\ popup = ZeroDivMsg
  /\ result_label # ResultInitial

(***************************************************************************)
(* C8                                                                      *)
(***************************************************************************)
RECURSIVE Kept(_, _)
\* the subsequence of candidate whose characters are digits of the radix
Kept(candidate, radix) ==
  IF candidate = << >> THEN << >>
  ELSE (IF ValidDigit(Head(candidate), radix) THEN << Head(candidate) >> ELSE << >>)
         \o Kept(Tail(candidate), radix)

\* C8: the text insert_text inserts is exactly the subsequence of the
\* candidate's characters whose digit value exists and is below the field's
\* radix, in order and unchanged (no case folding); every other character
\* is dropped and nothing is raised.
C8_FilterInput ==
  last.handler = "insert_text" =>
    LET entry == IF last.entry = 1 THEN entry1 ELSE entry2
    IN  /\ last.inserted = Kept(last.substring, entry.base)
        /\ entry.text = Kept(last.substring, entry.base)
        /\ last.raised = NoMsg
        /\ popup = NoMsg

\* C8's case: at radix 63 a paste of "+/" keeps "+" and drops "/"
C8_Witness ==
  /\ last.handler = "insert_text"
  /\ spinner = str(63)
  /\ last.substring = <<"+", "/">>
  /\ last.inserted = <<"+">>

(***************************************************************************)
(* C9                                                                      *)
(***************************************************************************)
\* C9: clear bypasses decoding: from any state, whatever the fields hold,
\* on_button('clear') raises nothing and opens no popup, empties both
\* fields, resets the result label to its initial text, and leaves the
\* selected radix (and the fields' filter radix) unchanged.
C9_Clear ==
  [][(last'.handler = "on_button" /\ last'.operation = "clear") =>
       /\ last'.raised = NoMsg
       /\ popup' = popup
       /\ entry1' = [entry1 EXCEPT !.text = << >>]
       /\ entry2' = [entry2 EXCEPT !.text = << >>]
       /\ result_label' = ResultInitial
       /\ spinner' = spinner]_vars

\* C9's case: clear has run after an evaluation of text that does not
\* decode (its popup is the last one opened)
C9_Witness ==
  /\ last.handler = "on_button"
  /\ last.operation = "clear"
  /\ IsInvalidDigit(Raise(popup))
  /\ entry1.text = << >>
  /\ entry2.text = << >>
  /\ result_label = ResultInitial

(***************************************************************************)
(* C10                                                                     *)
(***************************************************************************)
\* C10: in every state reached by typing through the filter, radix changes,
\* clear and evaluations, each field's filter radix is the selected radix
\* and its text holds only digits of that radix; so an evaluation fails
\* only with the empty-input or the division-by-zero error.
C10_FieldsValid ==
  /\ entry1.base = int(spinner)
  /\ entry2.base = int(spinner)
  /\ BadAt(entry1.text, int(spinner)) = {}
  /\ BadAt(entry2.text, int(spinner)) = {}
  /\ last.raised \in {NoMsg, EmptyMsg, ZeroDivMsg}
  /\ popup \in {NoMsg, EmptyMsg, ZeroDivMsg}

\* C10's case: after a radix change away from 10, both fields typed and a
\* division by zero has failed
C10_Witness ==
  /\ spinner = str(16)
  /\ \E i \in 1..Len(entry1.text) : entry1.text[i] = "A"
  /\ entry2.text # << >>
  /\ Evaluated
  /\ last.raised = ZeroDivMsg
====
